---- MODULE Spec2Model ----
(***************************************************************************)
(* Sahasrara Wellness booking engine: slot locks, the booking state        *)
(* machine, the payment webhook and the cleanup job, as a state machine    *)
(* over the shared tables (SlotLock, Booking, Payment, BookingStatusLog).  *)
(* Every request handler is a process whose steps are its database         *)
(* statements (PostgreSQL, READ COMMITTED): statements of different        *)
(* requests interleave, a transaction.atomic block that holds a row lock   *)
(* commits as one step.                                                    *)
(***************************************************************************)
EXTENDS Integers, Sequences, FiniteSets, TLC

VARIABLES
    now,          \* timezone.now(), in minutes of local time since day 0, 00:00
    locks,        \* table SlotLock: sequence of rows, the index is the id
    bookings,     \* table Booking: sequence of rows, the index is the id
    payments,     \* table Payment: sequence parallel to bookings (OneToOne)
    logs,         \* table BookingStatusLog, ordered by changed_at
    req,          \* per request process: the handler it runs and its locals
    slot_lock_id, \* per browser session: session['booking']['slot_lock_id']
    resp          \* what the request that ended in the last step returned or raised

vars == <<now, locks, bookings, payments, logs, req, slot_lock_id, resp>>

---------------------------------------------------------------------------
(* Program constants *)

SLOT_LOCK_TTL_MINUTES == 10
SAME_DAY_BOOKING_CUTOFF_HOURS == 2
STALE_BOOKING_MINUTES == 15
MINUTES_PER_DAY == 1440

(* Bounds of the model *)

MaxLocks == 2
MaxBookings == 2
MaxLogs == 3
MaxTicks == 3
MaxStatusBookings == 1   \* bookings whose life cycle SpecStatus follows

Procs == {1, 2}          \* concurrent requests; a guest's session key is its process
Workers == {1, 2}        \* active workers of the one branch
Dates == {1}              \* booking dates; day 1 is the local date at the start
StartTimes == {10 * 60}  \* requested start times (10:00)
Services == {1}
EventIds == {0, 1}       \* webhook payload 'id'; 0 is the empty string

\* The clock starts at 07:40 local time of day 1 and advances in steps of
\* one lock TTL: the 10:00 slot of day 1 enters the same-day cutoff after 08:00.
InitialNow == 1 * MINUTES_PER_DAY + 7 * 60 + 40
TickMinutes == SLOT_LOCK_TTL_MINUTES
MaxNow == InitialNow + MaxTicks * TickMinutes

\* Service rows. Service 1 is a seed service (30 minutes, no buffer);
\* service 2 has 40 minutes and a buffer of 10.
duration_minutes(svc) == IF svc = 2 THEN 40 ELSE 30
buffer_minutes(svc) == IF svc = 2 THEN 10 ELSE 0
price(svc) == 10
deposit_price(svc) == price(svc) \div 10

\* Branch rows. Branch 1 has the model defaults, opening 10:00 and closing
\* 19:00; branch 2 closes at 23:30; branch 3 has opening = closing = 19:00;
\* branch 4 has the defaults and is closed on Sundays.
opening_time(br) == IF br = 3 THEN 19 * 60 ELSE 10 * 60
closing_time(br) == IF br = 2 THEN 23 * 60 + 30 ELSE 19 * 60

\* Worker rows. Workers 1, 2, 4 and 5 belong to branch 1, worker 3 to branch 2,
\* worker 6 to branch 3, worker 7 to branch 4.
branch(w) == CASE w = 3 -> 2 [] w = 6 -> 3 [] w = 7 -> 4 [] OTHER -> 1

---------------------------------------------------------------------------
(* Time helpers (engine.py) *)

LocalDate(t) == t \div MINUTES_PER_DAY
LocalTime(t) == t % MINUTES_PER_DAY

_add_minutes(t, minutes) == (t + minutes) % MINUTES_PER_DAY

\* Variant: the overlap test on closed intervals.
_overlaps_Closed(a_start, a_end, b_start, b_end) == a_start <= b_end /\ a_end >= b_start

_overlaps(a_start, a_end, b_start, b_end) == a_start < b_end /\ a_end > b_start

\* Variant: the cutoff taken in minutes instead of hours.
_is_same_day_cutoff_Minutes(booking_date, start_time, t) ==
    IF booking_date # LocalDate(t)
    THEN FALSE
    ELSE LocalTime(t) > start_time - SAME_DAY_BOOKING_CUTOFF_HOURS

_is_same_day_cutoff(booking_date, start_time, t) ==
    IF booking_date # LocalDate(t)
    THEN FALSE
    ELSE LocalTime(t) > start_time - SAME_DAY_BOOKING_CUTOFF_HOURS * 60

---------------------------------------------------------------------------
(* Rows and queries *)

LockIds == 1..Len(locks)
BookingIds == 1..Len(bookings)

\* SlotLock.is_active as the queries state it: released=False, expires_at__gt=now
ActiveLock(l, t) == ~locks[l].released /\ locks[l].expires_at > t

SameCell(r, w, d, s) == r.worker = w /\ r.booking_date = d /\ r.start_time = s

ConfirmedAt(w, d, s) ==
    {b \in BookingIds : SameCell(bookings[b], w, d, s) /\ bookings[b].status = "CONFIRMED"}

ActiveLocksAt(w, d, s, t) ==
    {l \in LockIds : SameCell(locks[l], w, d, s) /\ ActiveLock(l, t)}

\* uq_active_slot_lock: UNIQUE (worker, booking_date, start_time) WHERE released = false
uq_active_slot_lock(rows) ==
    \A i, j \in 1..Len(rows) :
        (i # j /\ ~rows[i].released /\ ~rows[j].released)
            => ~SameCell(rows[i], rows[j].worker, rows[j].booking_date, rows[j].start_time)

\* Variant: a Booking table without the partial unique index.
uq_confirmed_booking_slot_Absent(rows) == TRUE

\* uq_confirmed_booking_slot: UNIQUE (worker, booking_date, start_time) WHERE status = 'CONFIRMED'
uq_confirmed_booking_slot(rows) ==
    \A i, j \in 1..Len(rows) :
        (i # j /\ rows[i].status = "CONFIRMED" /\ rows[j].status = "CONFIRMED")
            => ~SameCell(rows[i], rows[j].worker, rows[j].booking_date, rows[j].start_time)

---------------------------------------------------------------------------
(* Availability and slot generation (engine.py) *)

\* Branch.get_working_days: the weekdays (0 = Monday .. 6 = Sunday) of the
\* BranchSchedule rows with is_open. Branch 4 is closed on Sundays.
get_working_days(br) == IF br = 4 THEN 0..5 ELSE 0..6

\* date.weekday(): day 0 of the clock is a Monday.
weekday(d) == d % 7

\* Worker.is_active: worker 4 is soft-deleted.
is_active(w) == w # 4

\* WorkerLeave rows: worker 5 is on leave on day 2.
OnLeave(w, d) == w = 5 /\ d = 2

\* WorkerSchedule rows, <<start_time, end_time>> or <<>> for no row: worker 2
\* has a row 12:00-15:00 for every weekday.
WorkerSchedule(w, wd) == IF w = 2 THEN <<12 * 60, 15 * 60>> ELSE <<>>

\* Variant: the window is the worker's own schedule row where one exists.
get_availability_window_OwnSchedule(br, w, d) ==
    IF weekday(d) \notin get_working_days(br) THEN <<>>
    ELSE IF ~is_active(w) THEN <<>>
    ELSE IF OnLeave(w, d) THEN <<>>
    ELSE IF WorkerSchedule(w, weekday(d)) # <<>> THEN WorkerSchedule(w, weekday(d))
    ELSE IF opening_time(br) >= closing_time(br) THEN <<>>
    ELSE <<opening_time(br), closing_time(br)>>

\* get_availability_window(branch, worker, booking_date): <<start, end>>, or
\* <<>> for None.
get_availability_window(br, w, d) ==
    IF weekday(d) \notin get_working_days(br) THEN <<>>
    ELSE IF ~is_active(w) THEN <<>>
    ELSE IF OnLeave(w, d) THEN <<>>
    ELSE IF opening_time(br) >= closing_time(br) THEN <<>>
    ELSE <<opening_time(br), closing_time(br)>>

\* _get_occupied_windows: the [start, end) of the CONFIRMED bookings and of
\* the active locks of the worker on the date.
_get_occupied_windows(w, d, t) ==
    {<<bookings[b].start_time, bookings[b].end_time>> :
        b \in {c \in BookingIds : /\ bookings[c].worker = w
                                  /\ bookings[c].booking_date = d
                                  /\ bookings[c].status = "CONFIRMED"}}
    \cup
    {<<locks[l].start_time, locks[l].end_time>> :
        l \in {k \in LockIds : /\ locks[k].worker = w
                               /\ locks[k].booking_date = d
                               /\ ActiveLock(k, t)}}

\* Variant: the loop advances by the duration alone, without the buffer.
SlotLoop_NoBuffer(window_start, window_end, svc, d, t, occupied) ==
    LET total_block == duration_minutes(svc)
        current(k) == _add_minutes(window_start, k * total_block)
        stops(k) == _add_minutes(current(k), total_block) > window_end
        appends(slot) ==
            /\ ~_is_same_day_cutoff(d, slot.start, t)
            /\ ~\E occ \in occupied :
                  _overlaps(slot.start, _add_minutes(slot.start, total_block), occ[1], occ[2])
        period == CHOOSE k \in 1..MINUTES_PER_DAY :
                      current(k) = window_start /\ \A j \in 1..(k - 1) : current(j) # window_start
    IN  IF \A k \in 0..(period - 1) : ~stops(k)
        THEN <<[start |-> -1, end |-> -1]>>
        ELSE LET last == CHOOSE k \in 0..(period - 1) :
                             stops(k) /\ \A j \in 0..(k - 1) : ~stops(j)
             IN  SelectSeq([i \in 1..last |->
                               [start |-> current(i - 1),
                                end |-> _add_minutes(current(i - 1), duration_minutes(svc))]],
                           appends)

\* The while loop of get_available_slots (lines 175-197), round by round.
\* In round k (from 0) current is window_start advanced k times by
\* _add_minutes(current, total_block). The loop stops in the first round whose
\* block_end is after window_end; the rounds before it append their slot
\* unless it is inside the same-day cutoff or overlaps an occupied window.
\* The rounds depend on nothing but current: a loop that has not stopped when
\* current is window_start again never stops, which the result marks with a
\* single slot of start -1.
SlotLoop(window_start, window_end, svc, d, t, occupied) ==
    LET total_block == duration_minutes(svc) + buffer_minutes(svc)
        current(k) == _add_minutes(window_start, k * total_block)
        stops(k) == _add_minutes(current(k), total_block) > window_end
        appends(slot) ==
            /\ ~_is_same_day_cutoff(d, slot.start, t)
            /\ ~\E occ \in occupied :
                  _overlaps(slot.start, _add_minutes(slot.start, total_block), occ[1], occ[2])
        period == CHOOSE k \in 1..MINUTES_PER_DAY :
                      current(k) = window_start /\ \A j \in 1..(k - 1) : current(j) # window_start
    IN  IF \A k \in 0..(period - 1) : ~stops(k)
        THEN <<[start |-> -1, end |-> -1]>>
        ELSE LET last == CHOOSE k \in 0..(period - 1) :
                             stops(k) /\ \A j \in 0..(k - 1) : ~stops(j)
             IN  SelectSeq([i \in 1..last |->
                               [start |-> current(i - 1),
                                end |-> _add_minutes(current(i - 1), duration_minutes(svc))]],
                           appends)

\* get_available_slots(worker, service, booking_date) at time t.
get_available_slots(w, svc, d, t) ==
    IF ~is_active(w) THEN <<>>
    ELSE LET window == get_availability_window(branch(w), w, d) IN
         IF window = <<>> THEN <<>>
         ELSE IF d < LocalDate(t) THEN <<>>
         ELSE SlotLoop(window[1], window[2], svc, d, t, _get_occupied_windows(w, d, t))

---------------------------------------------------------------------------
(* Request processes *)

Idle == [op |-> "idle", stage |-> "", worker |-> 0, booking_date |-> 0,
         start_time |-> 0, service |-> 0, booking |-> 0, lock |-> 0,
         t |-> 0, snap |-> {}, event_id |-> 0, status |-> ""]

\* No request ended in this step.
NoResp == [proc |-> 0, op |-> "", res |-> ""]

\* Request p, running handler op, ends and returns or raises res.
Ends(p, op, res) ==
    /\ req' = [req EXCEPT ![p] = Idle]
    /\ resp' = [proc |-> p, op |-> op, res |-> res]

\* Request p goes on as r.
GoesOn(p, r) ==
    /\ req' = [req EXCEPT ![p] = r]
    /\ resp' = NoResp

IsIdle(p) == req[p].op = "idle"

\* Requests in flight that will still insert a row into a table.
PendingInserts(op) == Cardinality({p \in Procs : req[p].op = op})

Init ==
    /\ now = InitialNow
    /\ locks = <<>>
    /\ bookings = <<>>
    /\ payments = <<>>
    /\ logs = <<>>
    /\ req = [p \in Procs |-> Idle]
    /\ slot_lock_id = [p \in Procs |-> 0]
    /\ resp = NoResp

\* Time passes.
Tick ==
    /\ now + TickMinutes <= MaxNow
    /\ now' = now + TickMinutes
    /\ resp' = NoResp
    /\ UNCHANGED <<locks, bookings, payments, logs, req, slot_lock_id>>

---------------------------------------------------------------------------
(* Guest flow: step7_review POST = acquire_slot_lock, guest resolution,      *)
(* create_pending_booking                                                    *)

NoPayment == [exists |-> FALSE, status |-> "", razorpay_payment_id |-> 0,
              webhook_event_id |-> 0, amount |-> 0]

\* Requests in flight that may still insert a Booking row.
BookingInserters ==
    Cardinality({p \in Procs : req[p].op \in
                    {"step7_review", "manual_booking", "create_manual_booking"}})

\* Variant: acquire_slot_lock without the query for a CONFIRMED booking.
AcquireOutcome_CutoffOnly(w, d, s, t) ==
    IF _is_same_day_cutoff(d, s, t) THEN "SameDayCutoffError" ELSE "check_lock"

\* acquire_slot_lock, lines 276-300: the same-day cutoff re-check, then the
\* query for a CONFIRMED booking at the cell.
AcquireOutcome(w, d, s, t) ==
    IF _is_same_day_cutoff(d, s, t) THEN "SameDayCutoffError"
    ELSE IF ConfirmedAt(w, d, s) # {} THEN "SlotConflictError"
    ELSE "check_lock"

AcquireBegin(p, w, d, s, svc) ==
    /\ IsIdle(p)
    /\ Len(locks) + PendingInserts("step7_review") < MaxLocks
    /\ Len(bookings) + BookingInserters < MaxBookings
    /\ LET out == AcquireOutcome(w, d, s, now) IN
       IF out = "check_lock"
       THEN GoesOn(p, [Idle EXCEPT !.op = "step7_review", !.stage = "check_lock",
                                   !.worker = w, !.booking_date = d,
                                   !.start_time = s, !.service = svc])
       ELSE Ends(p, "step7_review", out)
    /\ UNCHANGED <<now, locks, bookings, payments, logs, slot_lock_id>>

\* Variant: acquire_slot_lock without the query for an active lock.
LockCheckOutcome_Unchecked(w, d, s, t) == "insert"

\* acquire_slot_lock, lines 302-321: now = timezone.now(), then the query for
\* an active lock at the cell.
LockCheckOutcome(w, d, s, t) ==
    IF ActiveLocksAt(w, d, s, t) # {} THEN "SlotAlreadyLockedException" ELSE "insert"

AcquireCheckLock(p) ==
    /\ req[p].op = "step7_review" /\ req[p].stage = "check_lock"
    /\ LET r == req[p]
           out == LockCheckOutcome(r.worker, r.booking_date, r.start_time, now) IN
       IF out = "insert"
       THEN GoesOn(p, [r EXCEPT !.stage = "insert", !.t = now])
       ELSE Ends(p, "step7_review", out)
    /\ UNCHANGED <<now, locks, bookings, payments, logs, slot_lock_id>>

\* The row SlotLock.objects.create writes (lines 324-334).
NewLock(r, session_key) ==
    [worker |-> r.worker, booking_date |-> r.booking_date,
     start_time |-> r.start_time,
     end_time |-> _add_minutes(r.start_time,
                               duration_minutes(r.service) + buffer_minutes(r.service)),
     session_key |-> session_key,
     expires_at |-> r.t + SLOT_LOCK_TTL_MINUTES,
     released |-> FALSE]

\* Variant: a SlotLock table without the partial unique index.
InsertLockAllowed_Unchecked(rows) == TRUE

\* INSERT INTO SlotLock: the storage checks uq_active_slot_lock; a violation
\* is django.db.IntegrityError, which acquire_slot_lock does not catch.
InsertLockAllowed(rows) == uq_active_slot_lock(rows)

\* acquire_slot_lock(worker, branch, service, booking_date, start_time, ...)
\* run on its own at time t, from its first check to the INSERT: the error it
\* raises, or "lock" if it creates the lock.
acquire_slot_lock(w, d, s, svc, t) ==
    IF AcquireOutcome(w, d, s, t) # "check_lock" THEN AcquireOutcome(w, d, s, t)
    ELSE IF LockCheckOutcome(w, d, s, t) # "insert" THEN LockCheckOutcome(w, d, s, t)
    ELSE IF ~InsertLockAllowed(Append(locks, NewLock([worker |-> w, booking_date |-> d,
                                                      start_time |-> s, service |-> svc,
                                                      t |-> t], 0)))
    THEN "IntegrityError"
    ELSE "lock"

AcquireInsert(p) ==
    /\ req[p].op = "step7_review" /\ req[p].stage = "insert"
    /\ LET r == req[p]
           rows == Append(locks, NewLock(r, p)) IN
       IF InsertLockAllowed(rows)
       THEN /\ locks' = rows
            /\ GoesOn(p, [r EXCEPT !.stage = "booking", !.lock = Len(rows)])
       ELSE /\ locks' = locks
            /\ Ends(p, "step7_review", "IntegrityError")
    /\ UNCHANGED <<now, bookings, payments, logs, slot_lock_id>>

\* create_pending_booking (engine.py lines 346-367).
NewPendingBooking(l, svc, t) ==
    [worker |-> locks[l].worker, booking_date |-> locks[l].booking_date,
     start_time |-> locks[l].start_time,
     end_time |-> _add_minutes(locks[l].start_time, duration_minutes(svc)),
     service |-> svc, status |-> "PENDING_PAYMENT", payment_status |-> "PENDING",
     amount_paid |-> price(svc), slot_lock |-> l, is_manual |-> FALSE,
     created_at |-> t]

\* Variant: release_slot_lock that does not store the flag.
release_slot_lock_Unsaved(rows, l) == rows

\* release_slot_lock (engine.py lines 338-341).
release_slot_lock(rows, l) == [rows EXCEPT ![l].released = TRUE]

\* step7_review after the lock is acquired (views.py lines 373-400): guest
\* resolution and booking creation may raise; only a failed creation releases
\* the lock.
Step7CreateBooking(p, outcome) ==
    /\ req[p].op = "step7_review" /\ req[p].stage = "booking"
    /\ LET l == req[p].lock IN
       CASE outcome = "ok" ->
              /\ bookings' = Append(bookings, NewPendingBooking(l, req[p].service, now))
              /\ payments' = Append(payments, NoPayment)
              /\ slot_lock_id' = [slot_lock_id EXCEPT ![p] = l]
              /\ Ends(p, "step7_review", "lock")
              /\ UNCHANGED locks
         [] outcome = "guest_error" ->
              /\ Ends(p, "step7_review", "ServerError")
              /\ UNCHANGED <<locks, bookings, payments, slot_lock_id>>
         [] outcome = "create_error" ->
              /\ locks' = release_slot_lock(locks, l)
              /\ Ends(p, "step7_review", "CreateFailed")
              /\ UNCHANGED <<bookings, payments, slot_lock_id>>
    /\ UNCHANGED <<now, logs>>

\* cancel_lock (views.py lines 628-637): the guest goes back to change the slot.
CancelLock(p) ==
    /\ IsIdle(p)
    /\ slot_lock_id[p] # 0
    /\ locks' = release_slot_lock(locks, slot_lock_id[p])
    /\ slot_lock_id' = [slot_lock_id EXCEPT ![p] = 0]
    /\ resp' = NoResp
    /\ UNCHANGED <<now, bookings, payments, logs, req>>

\* A guest of G submits step 7 for a worker of W.
GuestBegin(G, W) ==
    \E p \in G, w \in W, d \in Dates, s \in StartTimes, svc \in Services :
        AcquireBegin(p, w, d, s, svc)

\* The rest of the guest flow, for the guests (sessions) of G.
GuestSteps(G) ==
    \/ \E p \in G : AcquireCheckLock(p)
    \/ \E p \in G : AcquireInsert(p)
    \/ \E p \in G, outcome \in {"ok", "guest_error", "create_error"} :
          Step7CreateBooking(p, outcome)
    \/ \E p \in G : CancelLock(p)

Step7(G, W) == GuestBegin(G, W) \/ GuestSteps(G)

---------------------------------------------------------------------------
(* Notifications (notifications/emails.py)                                  *)

\* The dispatch of an e-mail is sent or fails (render or SMTP error).
Notifications == {"sent", "failed"}

\* Variant: a failed dispatch propagates and the writes are undone.
AfterNotification_Propagates(notify, written, before) ==
    IF notify = "failed" THEN before ELSE written

\* The rows a transition leaves behind once its notification has been tried:
\* _send logs and swallows the failure, and so does the try / except around
\* send_booking_confirmed (payments/views.py lines 202-205) and around
\* send_booking_cancelled (dashboard/views.py lines 207-210).
AfterNotification(notify, written, before) == written

\* What the request returns after the notification has been tried.
Notified(res, notify) == IF notify = "sent" THEN res ELSE "notification_failed"

---------------------------------------------------------------------------
(* Payment: initiate_payment and the Razorpay webhook (payments/views.py)   *)

\* The payment identifier the gateway reports for the captured payment of
\* booking b's order: every delivery for the order carries the same one.
RazorpayPaymentId(b) == b

\* BookingStatusLog rows the requests in flight may still write.
LogReserve(r) ==
    IF r.op \in {"razorpay_webhook", "booking_reassign", "manual_booking",
                 "create_manual_booking"}
       \/ (r.op \in {"booking_cancel", "booking_complete"} /\ r.stage = "log")
    THEN 1
    ELSE IF r.op = "cleanup"
    THEN Cardinality(r.snap) - (IF r.stage = "save" THEN 1 ELSE 0)
    ELSE 0

RECURSIVE SumReserve(_)
SumReserve(ps) ==
    IF ps = {} THEN 0
    ELSE LET p == CHOOSE q \in ps : TRUE IN LogReserve(req[p]) + SumReserve(ps \ {p})

LogRoom(n) == Len(logs) + SumReserve(Procs) + n <= MaxLogs

PaymentTypes == {"deposit"}

\* initiate_payment (lines 214-265): the first visit creates the Payment row.
InitiatePayment(b, payment_type) ==
    /\ b \in BookingIds
    /\ bookings[b].status = "PENDING_PAYMENT"
    /\ ~payments[b].exists
    /\ payments' = [payments EXCEPT ![b] =
          [exists |-> TRUE, status |-> "CREATED", razorpay_payment_id |-> 0,
           webhook_event_id |-> 0,
           amount |-> IF payment_type = "deposit"
                      THEN deposit_price(bookings[b].service)
                      ELSE price(bookings[b].service)]]
    /\ resp' = NoResp
    /\ UNCHANGED <<now, locks, bookings, logs, req, slot_lock_id>>

\* razorpay_webhook (lines 364-386), event payment.captured for the order of
\* booking b: the event-id guard, the payment lookup, and the save of the
\* event id before confirming.
WebhookBegin(p, e, b) ==
    /\ IsIdle(p)
    /\ LogRoom(1)
    /\ b \in BookingIds
    /\ payments[b].exists
    /\ IF e # 0 /\ \E c \in BookingIds : payments[c].exists /\ payments[c].webhook_event_id = e
       THEN /\ Ends(p, "razorpay_webhook", "already_processed")
            /\ UNCHANGED payments
       ELSE /\ payments' = [payments EXCEPT ![b].webhook_event_id = e]
            /\ GoesOn(p, [Idle EXCEPT !.op = "razorpay_webhook", !.stage = "payment_guard",
                                       !.booking = b, !.event_id = e])
    /\ UNCHANGED <<now, locks, bookings, logs, slot_lock_id>>

\* _confirm_booking step 1 (lines 167-170): the idempotent payment guard.
PaymentGuard(pid) ==
    \E c \in BookingIds :
        /\ payments[c].exists
        /\ payments[c].razorpay_payment_id = pid
        /\ payments[c].status = "CAPTURED"

ConfirmPaymentGuard(p) ==
    /\ req[p].op = "razorpay_webhook" /\ req[p].stage = "payment_guard"
    /\ IF PaymentGuard(RazorpayPaymentId(req[p].booking))
       THEN Ends(p, "razorpay_webhook", "skipped_payment")
       ELSE GoesOn(p, [req[p] EXCEPT !.stage = "row_lock"])
    /\ UNCHANGED <<now, locks, bookings, payments, logs, slot_lock_id>>

\* Variant: _confirm_booking without the state guard.
StatusGuard_Missing(b) == FALSE

\* _confirm_booking step 3 (lines 175-178): the state guard on the row read
\* under the row lock.
StatusGuard(b) == bookings[b].status = "CONFIRMED"

\* uq_payment_razorpay_payment_id: UNIQUE (razorpay_payment_id) WHERE NOT NULL
uq_payment_razorpay_payment_id(rows) ==
    \A i, j \in 1..Len(rows) :
        (i # j /\ rows[i].exists /\ rows[j].exists /\ rows[i].razorpay_payment_id # 0)
            => rows[i].razorpay_payment_id # rows[j].razorpay_payment_id

\* _confirm_booking steps 2-3, the writes and the notification (lines
\* 172-205), one step: the row lock of select_for_update is held until the
\* transaction commits. A violated uniqueness constraint raises
\* IntegrityError and rolls all of it back; razorpay_webhook catches it and
\* answers 200.
ConfirmUnderRowLock(p) ==
    /\ req[p].op = "razorpay_webhook" /\ req[p].stage = "row_lock"
    /\ LET b == req[p].booking
           old_status == bookings[b].status
           brows == [bookings EXCEPT ![b].status = "CONFIRMED",
                                      ![b].payment_status = "PAID",
                                      ![b].amount_paid = payments[b].amount]
           prows == [payments EXCEPT ![b].status = "CAPTURED",
                                      ![b].razorpay_payment_id = RazorpayPaymentId(b)]
       IN
       IF StatusGuard(b)
       THEN /\ Ends(p, "razorpay_webhook", "skipped_status")
            /\ UNCHANGED <<bookings, payments, logs>>
       ELSE IF uq_confirmed_booking_slot(brows) /\ uq_payment_razorpay_payment_id(prows)
       THEN \E notify \in Notifications :
               LET written == <<brows, prows,
                                Append(logs, [booking |-> b, from_status |-> old_status,
                                              to_status |-> "CONFIRMED",
                                              changed_by |-> "webhook"])>>
                   rows == AfterNotification(notify, written, <<bookings, payments, logs>>)
               IN  /\ bookings' = rows[1]
                   /\ payments' = rows[2]
                   /\ logs' = rows[3]
                   /\ Ends(p, "razorpay_webhook", Notified("confirmed", notify))
       ELSE /\ Ends(p, "razorpay_webhook", "IntegrityError")
            /\ UNCHANGED <<bookings, payments, logs>>
    /\ UNCHANGED <<now, locks, slot_lock_id>>

\* What a verified POST may carry: a body that is not JSON, JSON that is not
\* an object, or an object; an event type; and for payment.captured an entity
\* without order_id or with the order_id of no Payment.
WebhookBodies == {"not_json", "not_object", "object"}
WebhookEvents == {"payment.captured", "payment.failed"}
WebhookEntities == {"no_order_id", "unknown_order"}

\* razorpay_webhook (lines 358-402) for the deliveries that reach no
\* Payment: json.loads raises JSONDecodeError, answered with 400;
\* payload.get on a body that is not an object raises AttributeError outside
\* any try; the event-id guard; events other than payment.captured; and in
\* the try block KeyError and Payment.DoesNotExist, both caught.
WebhookNoPayment(p, body, e, event, entity) ==
    /\ IsIdle(p)
    /\ Ends(p, "razorpay_webhook",
            CASE body = "not_json" -> "JSONDecodeError"
              [] body = "not_object" -> "AttributeError"
              [] OTHER ->
                   IF e # 0 /\ \E c \in BookingIds :
                                  payments[c].exists /\ payments[c].webhook_event_id = e
                   THEN "already_processed"
                   ELSE IF event # "payment.captured" THEN "ignored"
                   ELSE IF entity = "no_order_id" THEN "KeyError"
                   ELSE "payment_not_found")
    /\ UNCHANGED <<now, locks, bookings, payments, logs, slot_lock_id>>

\* The HTTP status the caller of razorpay_webhook gets for each way the
\* request ends: 400 for a body that is not JSON (line 361), 500 for the
\* exception that leaves the view, 200 for everything the view returns after
\* the body is parsed, the exceptions caught in its try block included.
razorpay_webhook_status(res) ==
    CASE res = "JSONDecodeError" -> 400
      [] res = "AttributeError" -> 500
      [] OTHER -> 200

Payment ==
    \/ \E b \in 1..MaxBookings, payment_type \in PaymentTypes :
          InitiatePayment(b, payment_type)
    \/ \E p \in Procs, e \in EventIds, b \in 1..MaxBookings : WebhookBegin(p, e, b)
    \/ \E p \in Procs : ConfirmPaymentGuard(p)
    \/ \E p \in Procs : ConfirmUnderRowLock(p)

---------------------------------------------------------------------------
(* Cleanup job: manage.py cleanup_expired_locks (Command.handle)            *)

\* Step 2's queryset: PENDING_PAYMENT bookings created before now - 15 min.
StaleBookings(t) ==
    {b \in BookingIds : /\ bookings[b].status = "PENDING_PAYMENT"
                        /\ bookings[b].created_at < t - STALE_BOOKING_MINUTES}

\* Step 1 (lines 22-30): now is read, the expired unreleased locks are released.
CleanupBegin(p) ==
    /\ IsIdle(p)
    /\ LogRoom(Cardinality(StaleBookings(now)))
    /\ locks' = [l \in DOMAIN locks |->
                    IF ~locks[l].released /\ locks[l].expires_at < now
                    THEN [locks[l] EXCEPT !.released = TRUE]
                    ELSE locks[l]]
    /\ GoesOn(p, [Idle EXCEPT !.op = "cleanup", !.stage = "select", !.t = now])
    /\ UNCHANGED <<now, bookings, payments, logs, slot_lock_id>>

\* Step 2 (lines 33-39): the queryset is evaluated once, when the loop starts;
\* the loop then works on these in-memory rows.
CleanupSelect(p) ==
    /\ req[p].op = "cleanup" /\ req[p].stage = "select"
    /\ LET stale == StaleBookings(req[p].t) IN
       IF stale = {}
       THEN Ends(p, "cleanup", "ok")
       ELSE GoesOn(p, [req[p] EXCEPT !.stage = "expire", !.snap = stale])
    /\ UNCHANGED <<now, locks, bookings, payments, logs, slot_lock_id>>

\* Variant: line 42 finds every lock still held.
LockGone_Never(b, t) == FALSE

\* Line 42: the booking's lock, fetched when the loop reaches the booking.
LockGone(b, t) ==
    LET l == bookings[b].slot_lock IN
    l = 0 \/ locks[l].released \/ locks[l].expires_at < t

\* The loop body without the queryset's age filter and without line 42's
\* test: every PENDING_PAYMENT booking is expired.
CleanupExpireLog_EveryPending(p, b) ==
    /\ req[p].op = "cleanup" /\ req[p].stage = "expire"
    /\ b \in BookingIds /\ bookings[b].status = "PENDING_PAYMENT"
    /\ logs' = Append(logs, [booking |-> b, from_status |-> "PENDING_PAYMENT",
                             to_status |-> "EXPIRED", changed_by |-> "system_cron"])
    /\ GoesOn(p, [req[p] EXCEPT !.stage = "save", !.booking = b])
    /\ UNCHANGED <<now, locks, bookings, payments, slot_lock_id>>

\* Lines 40-43 for one booking of the loop: booking.expire() writes the audit
\* row with the in-memory status (Booking._transition), the save follows.
CleanupExpireLog(p, b) ==
    /\ req[p].op = "cleanup" /\ req[p].stage = "expire"
    /\ b \in req[p].snap
    /\ IF LockGone(b, req[p].t)
       THEN /\ logs' = Append(logs, [booking |-> b, from_status |-> "PENDING_PAYMENT",
                                      to_status |-> "EXPIRED", changed_by |-> "system_cron"])
            /\ GoesOn(p, [req[p] EXCEPT !.stage = "save", !.booking = b])
       ELSE /\ logs' = logs
            /\ IF req[p].snap = {b}
               THEN Ends(p, "cleanup", "ok")
               ELSE GoesOn(p, [req[p] EXCEPT !.snap = @ \ {b}])
    /\ UNCHANGED <<now, locks, bookings, payments, slot_lock_id>>

\* Booking.expire: self.save(update_fields=['status', 'updated_at']).
CleanupExpireSave(p) ==
    /\ req[p].op = "cleanup" /\ req[p].stage = "save"
    /\ LET b == req[p].booking IN
       /\ bookings' = [bookings EXCEPT ![b].status = "EXPIRED"]
       /\ IF req[p].snap = {b}
          THEN Ends(p, "cleanup", "ok")
          ELSE GoesOn(p, [req[p] EXCEPT !.stage = "expire", !.booking = 0,
                                        !.snap = @ \ {b}])
    /\ UNCHANGED <<now, locks, payments, logs, slot_lock_id>>

Cleanup ==
    \/ \E p \in Procs : CleanupBegin(p)
    \/ \E p \in Procs : CleanupSelect(p)
    \/ \E p \in Procs, b \in 1..MaxBookings : CleanupExpireLog(p, b)
    \/ \E p \in Procs : CleanupExpireSave(p)

---------------------------------------------------------------------------
(* Dashboard: booking_cancel, booking_complete, booking_reassign,           *)
(* manual_booking; engine: create_manual_booking                            *)

\* The status Booking.cancel / Booking.complete moves to.
TargetStatus(op) == IF op = "booking_cancel" THEN "CANCELLED" ELSE "COMPLETED"

\* The view's guard on the row it has just read (dashboard/views.py lines
\* 202 and 220).
TransitionAllowed(op, status) ==
    IF op = "booking_cancel"
    THEN status \in {"CONFIRMED", "PENDING_PAYMENT"}
    ELSE status = "CONFIRMED"

\* booking_cancel / booking_complete: get_object_or_404 and the guard.
TransitionBegin(p, op, b) ==
    /\ IsIdle(p)
    /\ LogRoom(1)
    /\ b \in BookingIds
    /\ IF TransitionAllowed(op, bookings[b].status)
       THEN GoesOn(p, [Idle EXCEPT !.op = op, !.stage = "log", !.booking = b,
                                   !.status = bookings[b].status])
       ELSE Ends(p, op, "rejected")
    /\ UNCHANGED <<now, locks, bookings, payments, logs, slot_lock_id>>

\* Booking._transition (models.py lines 193-202): the audit row is written
\* first, from the in-memory status.
TransitionLog(p) ==
    /\ req[p].op \in {"booking_cancel", "booking_complete"} /\ req[p].stage = "log"
    /\ logs' = Append(logs, [booking |-> req[p].booking, from_status |-> req[p].status,
                              to_status |-> TargetStatus(req[p].op), changed_by |-> "admin"])
    /\ GoesOn(p, [req[p] EXCEPT !.stage = "save"])
    /\ UNCHANGED <<now, locks, bookings, payments, slot_lock_id>>

\* Booking.cancel / complete: self.save(update_fields=['status', 'updated_at']),
\* outside any transaction; the statement may fail (outcome "error").
\* booking_cancel then sends the cancellation e-mail (lines 206-210).
TransitionSave(p, outcome) ==
    /\ req[p].op \in {"booking_cancel", "booking_complete"} /\ req[p].stage = "save"
    /\ IF outcome = "ok"
       THEN \E notify \in IF req[p].op = "booking_cancel" THEN Notifications ELSE {"sent"} :
               /\ bookings' = AfterNotification(notify,
                                  [bookings EXCEPT ![req[p].booking].status =
                                                       TargetStatus(req[p].op)],
                                  bookings)
               /\ Ends(p, req[p].op, Notified("ok", notify))
       ELSE /\ bookings' = bookings
            /\ Ends(p, req[p].op, "ServerError")
    /\ UNCHANGED <<now, locks, payments, logs, slot_lock_id>>

\* booking_reassign (lines 229-245): the row is read and must be CONFIRMED.
ReassignBegin(p, b, new_worker) ==
    /\ IsIdle(p)
    /\ LogRoom(1)
    /\ b \in BookingIds
    /\ IF bookings[b].status = "CONFIRMED"
       THEN GoesOn(p, [Idle EXCEPT !.op = "booking_reassign", !.stage = "save",
                                   !.booking = b, !.worker = new_worker,
                                   !.status = bookings[b].status])
       ELSE Ends(p, "booking_reassign", "rejected")
    /\ UNCHANGED <<now, locks, bookings, payments, logs, slot_lock_id>>

\* Lines 247-249: booking.save(update_fields=['worker', 'updated_at']); the
\* storage checks uq_confirmed_booking_slot on the stored row.
ReassignSave(p) ==
    /\ req[p].op = "booking_reassign" /\ req[p].stage = "save"
    /\ LET rows == [bookings EXCEPT ![req[p].booking].worker = req[p].worker] IN
       IF uq_confirmed_booking_slot(rows)
       THEN /\ bookings' = rows
            /\ GoesOn(p, [req[p] EXCEPT !.stage = "log"])
       ELSE /\ bookings' = bookings
            /\ Ends(p, "booking_reassign", "IntegrityError")
    /\ UNCHANGED <<now, locks, payments, logs, slot_lock_id>>

\* Lines 251-257: the audit row of the reassignment, from == to.
ReassignLog(p) ==
    /\ req[p].op = "booking_reassign" /\ req[p].stage = "log"
    /\ logs' = Append(logs, [booking |-> req[p].booking, from_status |-> req[p].status,
                              to_status |-> req[p].status, changed_by |-> "admin"])
    /\ Ends(p, "booking_reassign", "ok")
    /\ UNCHANGED <<now, locks, bookings, payments, slot_lock_id>>

\* The conflict check before a manual booking: the dashboard view looks for
\* any overlapping booking that is not CANCELLED or EXPIRED (dashboard/views.py
\* lines 320-327), the engine for a CONFIRMED booking at the exact cell
\* (engine.py lines 379-388).
ManualConflict(op, w, d, s, svc) ==
    IF op = "manual_booking"
    THEN \E b \in BookingIds :
            /\ bookings[b].worker = w /\ bookings[b].booking_date = d
            /\ bookings[b].start_time < _add_minutes(s, duration_minutes(svc))
            /\ bookings[b].end_time > s
            /\ bookings[b].status \notin {"CANCELLED", "EXPIRED"}
    ELSE ConfirmedAt(w, d, s) # {}

ManualBegin(p, op, w, d, s, svc) ==
    /\ IsIdle(p)
    /\ LogRoom(1)
    /\ Len(bookings) + BookingInserters < MaxBookings
    /\ IF ManualConflict(op, w, d, s, svc)
       THEN Ends(p, op, IF op = "manual_booking" THEN "Conflict" ELSE "SlotConflictError")
       ELSE GoesOn(p, [Idle EXCEPT !.op = op, !.stage = "insert", !.worker = w,
                                   !.booking_date = d, !.start_time = s, !.service = svc])
    /\ UNCHANGED <<now, locks, bookings, payments, logs, slot_lock_id>>

\* The row both manual paths create: CONFIRMED, WAIVED, amount 0.
NewManualBooking(r, t) ==
    [worker |-> r.worker, booking_date |-> r.booking_date, start_time |-> r.start_time,
     end_time |-> _add_minutes(r.start_time, duration_minutes(r.service)),
     service |-> r.service, status |-> "CONFIRMED", payment_status |-> "WAIVED",
     amount_paid |-> 0, slot_lock |-> 0, is_manual |-> TRUE, created_at |-> t]

\* INSERT INTO Booking: the storage checks uq_confirmed_booking_slot.
ManualInsert(p) ==
    /\ req[p].op \in {"manual_booking", "create_manual_booking"} /\ req[p].stage = "insert"
    /\ LET rows == Append(bookings, NewManualBooking(req[p], now)) IN
       IF uq_confirmed_booking_slot(rows)
       THEN /\ bookings' = rows
            /\ payments' = Append(payments, NoPayment)
            /\ GoesOn(p, [req[p] EXCEPT !.stage = "log", !.booking = Len(rows)])
       ELSE /\ UNCHANGED <<bookings, payments>>
            /\ Ends(p, req[p].op, "IntegrityError")
    /\ UNCHANGED <<now, locks, logs, slot_lock_id>>

\* The audit row of the creation: the view writes from_status PENDING_PAYMENT
\* (dashboard/views.py line 347), the engine the empty string (engine.py line 409).
ManualLog(p) ==
    /\ req[p].op \in {"manual_booking", "create_manual_booking"} /\ req[p].stage = "log"
    /\ logs' = Append(logs, [booking |-> req[p].booking,
                              from_status |-> IF req[p].op = "manual_booking"
                                              THEN "PENDING_PAYMENT" ELSE "",
                              to_status |-> "CONFIRMED", changed_by |-> "admin"])
    /\ Ends(p, req[p].op, "ok")
    /\ UNCHANGED <<now, locks, bookings, payments, slot_lock_id>>

ManualOps == {"manual_booking", "create_manual_booking"}

\* Manual bookings through the paths of Ops.
Manual(Ops) ==
    \/ \E p \in Procs, op \in Ops, w \in Workers, d \in Dates,
          s \in StartTimes, svc \in Services : ManualBegin(p, op, w, d, s, svc)
    \/ \E p \in Procs : ManualInsert(p)
    \/ \E p \in Procs : ManualLog(p)

Transitions ==
    \/ \E p \in Procs, op \in {"booking_cancel", "booking_complete"},
          b \in 1..MaxBookings : TransitionBegin(p, op, b)
    \/ \E p \in Procs : TransitionLog(p)
    \/ \E p \in Procs, outcome \in {"ok", "error"} : TransitionSave(p, outcome)

Reassign ==
    \/ \E p \in Procs, b \in 1..MaxBookings, w \in Workers : ReassignBegin(p, b, w)
    \/ \E p \in Procs : ReassignSave(p)
    \/ \E p \in Procs : ReassignLog(p)

---------------------------------------------------------------------------
(* Slot display: step5_slots calls get_available_slots (bookings/views.py)   *)

\* The workers, services, dates and start times of the rows the tables hold
\* when slots are generated: a worker of each branch, both services, today and
\* tomorrow, a start on the grid (11:00), one off the grid (11:15, which the
\* dashboard's manual booking accepts) and a late one (23:20).
GenWorkers == {1, 3}
GenServices == {1, 2}
GenDates == {1, 2}
GenStarts == {11 * 60, 11 * 60 + 15, 23 * 60 + 20}

GenCells ==
    {[worker |-> w, booking_date |-> d, start_time |-> s, service |-> svc, t |-> InitialNow] :
        w \in GenWorkers, d \in GenDates, s \in GenStarts, svc \in GenServices}

\* Tables as earlier requests have left them: at most one CONFIRMED manual
\* booking with its audit row, at most one unreleased lock taken at the start.
InitGen ==
    /\ now = InitialNow
    /\ \E bs \in {<<>>} \cup {<<NewManualBooking(c, InitialNow)>> : c \in GenCells} :
          /\ bookings = bs
          /\ payments = [i \in 1..Len(bs) |-> NoPayment]
          /\ logs = [i \in 1..Len(bs) |->
                        [booking |-> i, from_status |-> "PENDING_PAYMENT",
                         to_status |-> "CONFIRMED", changed_by |-> "admin"]]
    /\ locks \in {<<>>} \cup {<<NewLock(c, 2)>> : c \in {g \in GenCells : g.start_time = 11 * 60}}
    /\ req = [p \in Procs |-> Idle]
    /\ slot_lock_id = [p \in Procs |-> 0]
    /\ resp = NoResp

\* step5_slots for a specific worker (views.py line 248): the slots are
\* computed from the tables as they are now; a loop that never stops gives no
\* response.
GetSlots(p, w, svc, d) ==
    /\ IsIdle(p)
    /\ LET slots == get_available_slots(w, svc, d, now) IN
       resp' = [proc |-> p, op |-> "get_available_slots",
                res |-> IF slots # <<>> /\ slots[1].start = -1
                        THEN "never_returns" ELSE "slots",
                worker |-> w, service |-> svc, booking_date |-> d, slots |-> slots]
    /\ UNCHANGED <<now, locks, bookings, payments, logs, req, slot_lock_id>>

\* The branches, workers and dates the availability window is asked for: day
\* 1 (a Tuesday), day 2 (worker 5's leave) and day 6 (a Sunday).
WinBranches == 1..4
WinWorkers == 1..7
WinDates == {1, 2, 6}

\* step5_slots for a specific worker (views.py line 246): the window decides
\* whether the branch is shown as open.
GetWindow(p, br, w, d) ==
    /\ IsIdle(p)
    /\ LET window == get_availability_window(br, w, d) IN
       resp' = [proc |-> p, op |-> "get_availability_window",
                res |-> IF window = <<>> THEN "None" ELSE "window",
                branch |-> br, worker |-> w, booking_date |-> d, window |-> window]
    /\ UNCHANGED <<now, locks, bookings, payments, logs, req, slot_lock_id>>

---------------------------------------------------------------------------
(* "Any available" worker: get_available_workers_for_slot and               *)
(* pick_least_booked_worker (engine.py)                                     *)

\* A queryset of workers as a list: Worker.Meta.ordering is (branch, name),
\* and the workers are named in the order of their ids.
WorkerList(S) ==
    [i \in 1..Cardinality(S) |-> CHOOSE w \in S : Cardinality({v \in S : v < w}) = i - 1]

\* get_available_workers_for_slot(branch, service, booking_date, start_time)
\* at time t: the active workers of the branch whose window the block is not
\* outside of and whose occupied windows the block does not overlap. The
\* block end is _add_minutes(start_time, duration + buffer).
get_available_workers_for_slot(br, svc, d, s, t) ==
    LET block_end == _add_minutes(s, duration_minutes(svc) + buffer_minutes(svc))
        candidate(w) ==
            LET window == get_availability_window(br, w, d) IN
            /\ window # <<>>
            /\ ~(s < window[1] \/ block_end > window[2])
            /\ ~\E occ \in _get_occupied_windows(w, d, t) :
                  _overlaps(s, block_end, occ[1], occ[2])
    IN  WorkerList({w \in WinWorkers : branch(w) = br /\ is_active(w) /\ candidate(w)})

\* confirmed_counts[w]: the CONFIRMED bookings of the worker on the date.
confirmed_counts(w, d) ==
    Cardinality({b \in BookingIds : /\ bookings[b].worker = w
                                     /\ bookings[b].booking_date = d
                                     /\ bookings[b].status = "CONFIRMED"})

\* Variant: the minimum is taken by the number of CONFIRMED bookings alone.
pick_least_booked_worker_CountOnly(workers, d) ==
    IF workers = <<>> THEN 0
    ELSE LET key(i) == <<confirmed_counts(workers[i], d), 0>>
             less(a, b) == a[1] < b[1] \/ (a[1] = b[1] /\ a[2] < b[2])
         IN  workers[CHOOSE i \in 1..Len(workers) :
                         /\ \A j \in 1..Len(workers) : ~less(key(j), key(i))
                         /\ \A j \in 1..(i - 1) : key(j) # key(i)]

\* pick_least_booked_worker(workers, booking_date): 0 stands for raising
\* NoWorkersAvailableError. min(workers, key=(confirmed_counts[w], str(w.id)))
\* is the first element of the list whose key no other element's key is less
\* than; keys are compared as tuples. str(w.id) is the 36 character lower-case
\* form of a UUID, whose string order is the order of the ids.
pick_least_booked_worker(workers, d) ==
    IF workers = <<>> THEN 0
    ELSE LET key(i) == <<confirmed_counts(workers[i], d), workers[i]>>
             less(a, b) == a[1] < b[1] \/ (a[1] = b[1] /\ a[2] < b[2])
         IN  workers[CHOOSE i \in 1..Len(workers) :
                         /\ \A j \in 1..Len(workers) : ~less(key(j), key(i))
                         /\ \A j \in 1..(i - 1) : key(j) # key(i)]

\* The rows the tables hold when a worker is looked for: bookings of workers
\* 1 and 2 on day 2 at 11:00 and 11:30, CONFIRMED or CANCELLED, and a lock on
\* worker 2's 11:00 taken at the start.
AnyCells ==
    {[worker |-> w, booking_date |-> 2, start_time |-> s, service |-> 1, t |-> InitialNow] :
        w \in {1, 2}, s \in {11 * 60, 11 * 60 + 30}}

AnyBookingRows ==
    {NewManualBooking(c, InitialNow) : c \in AnyCells}
    \cup {[NewManualBooking(c, InitialNow) EXCEPT !.status = "CANCELLED"] :
             c \in {g \in AnyCells : g.worker = 1 /\ g.start_time = 11 * 60}}

MaxAnyBookings == 3

\* Tables as earlier requests have left them: up to three bookings, in the
\* order of their start times, and at most one unreleased lock.
InitAny ==
    /\ now = InitialNow
    /\ \E n \in 0..MaxAnyBookings : \E bs \in [1..n -> AnyBookingRows] :
          /\ uq_confirmed_booking_slot(bs)
          /\ \A i \in 1..(n - 1) : bs[i].start_time <= bs[i + 1].start_time
          /\ bookings = bs
          /\ payments = [i \in 1..n |-> NoPayment]
          /\ logs = <<>>
    /\ locks \in {<<>>} \cup {<<NewLock(c, 2)>> :
                              c \in {g \in AnyCells : g.worker = 2 /\ g.start_time = 11 * 60}}
    /\ req = [p \in Procs |-> Idle]
    /\ slot_lock_id = [p \in Procs |-> 0]
    /\ resp = NoResp

\* The slots a guest may ask about: before opening, on the grid, off the
\* grid, too late for the block to end by closing, and late in the evening.
AnyStarts == {9 * 60 + 30, 11 * 60, 11 * 60 + 15, 18 * 60 + 45, 23 * 60 + 40}
AnyBranches == {1, 2}
AnyDates == {1, 2}

\* api_available_workers (views.py lines 523-551).
GetWorkers(p, br, svc, d, s) ==
    /\ IsIdle(p)
    /\ resp' = [proc |-> p, op |-> "get_available_workers_for_slot", res |-> "workers",
                branch |-> br, service |-> svc, booking_date |-> d, start_time |-> s,
                workers |-> get_available_workers_for_slot(br, svc, d, s, now)]
    /\ UNCHANGED <<now, locks, bookings, payments, logs, req, slot_lock_id>>

\* The candidate lists pick_least_booked_worker is given: the workers of
\* branch 1 that can be candidates, in every order.
PickCandidates == {1, 2, 5}
PickLists ==
    {ws \in UNION {[1..n -> PickCandidates] : n \in 0..Cardinality(PickCandidates)} :
        \A i, j \in 1..Len(ws) : i # j => ws[i] # ws[j]}

\* step7_review for "any" worker (views.py lines 336-347): the worker is
\* picked from the candidates, or the guest is sent back to the slots.
PickWorker(p, workers, d) ==
    /\ IsIdle(p)
    /\ LET worker == pick_least_booked_worker(workers, d) IN
       resp' = [proc |-> p, op |-> "pick_least_booked_worker",
                res |-> IF worker = 0 THEN "NoWorkersAvailableError" ELSE "worker",
                workers |-> workers, booking_date |-> d, worker |-> worker]
    /\ UNCHANGED <<now, locks, bookings, payments, logs, req, slot_lock_id>>

---------------------------------------------------------------------------
(* Specifications *)

\* The slot lock manager: concurrent guest requests and the cleanup job,
\* with time passing.
NextLock ==
    \/ Tick
    \/ Step7(Procs, Workers)
    \/ Cleanup

SpecLock == Init /\ [][NextLock]_vars

\* Lock acquisition against CONFIRMED bookings: concurrent guest requests and
\* manual bookings, with time passing.
NextConflict ==
    \/ Tick
    \/ Step7(Procs, Workers)
    \/ Manual({"create_manual_booking"})

SpecConflict == Init /\ [][NextConflict]_vars

\* Confirmation: one guest at a time reserves and pays, webhook deliveries,
\* manual bookings and reassignments run concurrently.
NextConfirm ==
    \/ Step7({1}, Workers)
    \/ Payment
    \/ Manual(ManualOps)
    \/ Reassign

SpecConfirm == Init /\ [][NextConfirm]_vars

\* The booking state machine: one guest at a time reserves and pays; webhook
\* deliveries, admin cancel / complete and the cleanup job run concurrently,
\* with time passing.
NextStatus ==
    \/ Tick
    \/ (Len(bookings) < MaxStatusBookings /\ GuestBegin({1}, {1}))
    \/ GuestSteps({1})
    \/ Payment
    \/ Transitions
    \/ Cleanup

SpecStatus == Init /\ [][NextStatus]_vars

\* Slot generation and the same-day cutoff: one guest reserves, manual
\* bookings occupy cells, time passes.
NextSlots ==
    \/ Tick
    \/ Step7({1}, Workers)
    \/ Manual({"create_manual_booking"})

SpecSlots == Init /\ [][NextSlots]_vars

\* Slot generation as a function of the tables: the slot display is asked for
\* each worker, service and date while time passes.
NextGen ==
    \/ Tick
    \/ \E w \in GenWorkers, svc \in GenServices, d \in GenDates : GetSlots(1, w, svc, d)

SpecGen == InitGen /\ [][NextGen]_vars

\* The availability window as a function of the branch, worker and date rows.
NextWindow ==
    \/ Tick
    \/ \E br \in WinBranches, w \in WinWorkers, d \in WinDates : GetWindow(1, br, w, d)

SpecWindow == Init /\ [][NextWindow]_vars

\* The candidates for "any available" worker and the fair pick among them,
\* as functions of the tables, while time passes.
NextAny ==
    \/ Tick
    \/ \E br \in AnyBranches, svc \in GenServices, d \in AnyDates, s \in AnyStarts :
          GetWorkers(1, br, svc, d, s)
    \/ \E workers \in PickLists, d \in AnyDates : PickWorker(1, workers, d)

SpecAny == InitAny /\ [][NextAny]_vars

\* The webhook endpoint: one guest reserves and pays, manual bookings take
\* cells, and deliveries of every kind arrive.
NextWebhook ==
    \/ Step7({1}, Workers)
    \/ Payment
    \/ Manual({"create_manual_booking"})
    \/ \E p \in Procs, body \in WebhookBodies, e \in EventIds, event \in WebhookEvents,
          entity \in WebhookEntities : WebhookNoPayment(p, body, e, event, entity)

SpecWebhook == Init /\ [][NextWebhook]_vars

\* Transitions that notify the guest: one guest reserves and pays, the
\* webhook confirms, an admin cancels or completes.
NextNotify ==
    \/ (Len(bookings) < MaxStatusBookings /\ GuestBegin({1}, {1}))
    \/ GuestSteps({1})
    \/ Payment
    \/ Transitions

SpecNotify == Init /\ [][NextNotify]_vars


\* The cleanup job under cron: guest 1 reserves and goes back, process Cron
\* runs the job again and again, time passes. Within the clock's bound a
\* request is only served while a booking it creates can still become stale.
Cron == 2
MaxLiveNow == MaxNow - (STALE_BOOKING_MINUTES \div TickMinutes + 1) * TickMinutes

NextLive ==
    \/ Tick
    \/ (now <= MaxLiveNow /\ Step7({1}, Workers))
    \/ CleanupBegin(Cron)
    \/ CleanupSelect(Cron)
    \/ \E b \in 1..MaxBookings : CleanupExpireLog(Cron, b)
    \/ CleanupExpireSave(Cron)

\* cron starts the job every five minutes and every run goes through to its
\* end; the clock advances.
FairLive ==
    /\ WF_vars(Tick)
    /\ WF_vars(CleanupBegin(Cron))
    /\ WF_vars(CleanupSelect(Cron))
    /\ WF_vars(\E b \in 1..MaxBookings : CleanupExpireLog(Cron, b))
    /\ WF_vars(CleanupExpireSave(Cron))

SpecLive == Init /\ [][NextLive]_vars /\ FairLive


\* What step 7 hands to acquire_slot_lock: the date and the start time come
\* from the session, where step 4 stored any date that was not in the past
\* then and step 5 any start time that was posted (views.py lines 176-184 and
\* 219-226). Day 0 is yesterday; 09:00 is before opening; 10:50 is on the grid
\* of service 2 and 11:00 on the grid of service 1.
CellDates == {0, 2}
CellStarts == {9 * 60, 10 * 60 + 50, 11 * 60}
CellRequests ==
    {[booking_date |-> 0, start_time |-> 11 * 60, service |-> 1],
     [booking_date |-> 2, start_time |-> 9 * 60, service |-> 1],
     [booking_date |-> 2, start_time |-> 10 * 60 + 50, service |-> 2],
     [booking_date |-> 2, start_time |-> 11 * 60, service |-> 1]}

\* Acquisition for any cell: one guest reserves one cell after another for
\* worker 1 and pays, webhook deliveries confirm.
NextCells ==
    \/ \E c \in CellRequests :
          AcquireBegin(1, 1, c.booking_date, c.start_time, c.service)
    \/ GuestSteps({1})
    \/ Payment

SpecCells == Init /\ [][NextCells]_vars


\* Payment after the lock is gone: two guests reserve the cells of worker 1,
\* go back and pay; webhook deliveries confirm.
NextPaid ==
    \/ Step7(Procs, {1})
    \/ Payment

SpecPaid == Init /\ [][NextPaid]_vars


\* Redelivery of webhook events: one guest reserves and pays, a manual
\* booking takes the cell, an admin cancels or completes, and deliveries of
\* the events arrive again and again.
NextRedeliver ==
    \/ (Len(bookings) < MaxStatusBookings /\ GuestBegin({1}, {1}))
    \/ GuestSteps({1})
    \/ Payment
    \/ Manual({"create_manual_booking"})
    \/ Transitions

SpecRedeliver == Init /\ [][NextRedeliver]_vars


---------------------------------------------------------------------------
(* Properties: concurrency and identity of slots *)

\* C1: at any instant a (worker, booking_date, start_time) cell has at most
\* one active lock (released = false and expires_at in the future), whatever
\* the interleaving of acquisitions, releases and cleanup runs.
C1_AtMostOneActiveLock ==
    \A w \in Workers, d \in Dates, s \in StartTimes :
        Cardinality({l \in LockIds : /\ locks[l].worker = w
                                     /\ locks[l].booking_date = d
                                     /\ locks[l].start_time = s
                                     /\ ~locks[l].released
                                     /\ locks[l].expires_at > now}) <= 1

\* A cell has an active lock while a concurrent acquisition for the same cell
\* has passed its checks and is about to insert its own row.
C1_Witness ==
    \E l \in LockIds, p \in Procs :
        /\ ~locks[l].released /\ locks[l].expires_at > now
        /\ req[p].op = "step7_review" /\ req[p].stage = "insert"
        /\ SameCell(locks[l], req[p].worker, req[p].booking_date, req[p].start_time)

\* C2: at any instant a cell has at most one booking in status CONFIRMED,
\* after confirmation by the webhook, manual creation (engine and dashboard)
\* and reassignment.
C2_AtMostOneConfirmed ==
    \A w \in Workers, d \in Dates, s \in StartTimes :
        Cardinality({b \in BookingIds : /\ bookings[b].worker = w
                                        /\ bookings[b].booking_date = d
                                        /\ bookings[b].start_time = s
                                        /\ bookings[b].status = "CONFIRMED"}) <= 1

\* A confirmation, manual creation or reassignment that would have put a
\* second CONFIRMED booking on a cell has just been refused by the storage.
C2_Witness ==
    /\ resp.res = "IntegrityError"
    /\ resp.op \in {"razorpay_webhook", "booking_reassign", "manual_booking",
                    "create_manual_booking"}
    /\ \E b \in BookingIds : bookings[b].status = "CONFIRMED"

\* C3: of concurrent acquisitions for one cell exactly one gets a lock and
\* every other fails with SlotConflictError or SlotAlreadyLockedException: an
\* acquisition whose insert meets the winner's active lock ends with one of
\* the two domain errors.
C3_LoserGetsDomainError ==
    [][\A p \in Procs :
          (/\ AcquireInsert(p)
           /\ \E l \in LockIds :
                 /\ SameCell(locks[l], req[p].worker, req[p].booking_date,
                             req[p].start_time)
                 /\ ~locks[l].released /\ locks[l].expires_at > now)
          => /\ resp'.proc = p
             /\ resp'.res \in {"SlotConflictError", "SlotAlreadyLockedException"}]_vars

C5_TerminalIsFinal ==
    [][\A b \in BookingIds :
          bookings'[b].status # bookings[b].status
          => <<bookings[b].status, bookings'[b].status>> \in
                {<<"PENDING_PAYMENT", "CONFIRMED">>, <<"PENDING_PAYMENT", "CANCELLED">>,
                 <<"PENDING_PAYMENT", "EXPIRED">>, <<"CONFIRMED", "COMPLETED">>,
                 <<"CONFIRMED", "CANCELLED">>}]_vars

\* C6: the status of a booking equals the to_status of its most recent log
\* row, in every state in which no request is working on the booking, also
\* after a failure between the log write and the status write.
C6_StatusMatchesLastLog ==
    \A b \in BookingIds :
        LET rows == {i \in 1..Len(logs) : logs[i].booking = b} IN
        (rows # {} /\ \A p \in Procs : req[p].booking # b)
        => \E i \in rows : /\ \A j \in rows : j <= i
                           /\ logs[i].to_status = bookings[b].status

\* C7: on the current local date a start time less than the cutoff after the
\* current local time is never among the slots get_available_slots returns,
\* and acquire_slot_lock called with it fails with SameDayCutoffError and
\* leaves the locks as they are.
C7_SameDayCutoff ==
    /\ [](\A w \in Workers, svc \in Services, d \in Dates :
            LET slots == get_available_slots(w, svc, d, now) IN
            \A i \in 1..Len(slots) :
                ~(/\ d = LocalDate(now)
                  /\ slots[i].start < LocalTime(now) + SAME_DAY_BOOKING_CUTOFF_HOURS * 60))
    /\ [][\A p \in Procs, w \in Workers, d \in Dates, s \in StartTimes,
            svc \in Services :
             (/\ AcquireBegin(p, w, d, s, svc)
              /\ d = LocalDate(now)
              /\ s < LocalTime(now) + SAME_DAY_BOOKING_CUTOFF_HOURS * 60)
             => /\ resp' = [proc |-> p, op |-> "step7_review",
                            res |-> "SameDayCutoffError"]
                /\ locks' = locks]_vars

\* An acquisition has just failed with SameDayCutoffError while later slots
\* of the day are still offered.
C7_Witness ==
    /\ resp.res = "SameDayCutoffError"
    /\ \E w \in Workers, svc \in Services, d \in Dates :
          /\ d = LocalDate(now)
          /\ get_available_slots(w, svc, d, now) # <<>>

\* C8 (as amended): while a cell has an active lock, an acquisition for the
\* cell, by any session, fails and leaves the locks unchanged: at the first
\* checks only with SameDayCutoffError (start inside the cutoff) or
\* SlotConflictError (a CONFIRMED booking at the cell), and at the lock check
\* always with SlotAlreadyLockedException.
C8_ActiveLockBlocks ==
    [][/\ \A p \in Procs :
            (/\ AcquireCheckLock(p)
             /\ \E l \in LockIds :
                   /\ SameCell(locks[l], req[p].worker, req[p].booking_date,
                               req[p].start_time)
                   /\ ~locks[l].released /\ locks[l].expires_at > now)
            => /\ resp' = [proc |-> p, op |-> "step7_review",
                           res |-> "SlotAlreadyLockedException"]
               /\ locks' = locks
       /\ \A p \in Procs, w \in Workers, d \in Dates, s \in StartTimes,
            svc \in Services :
            (/\ AcquireBegin(p, w, d, s, svc)
             /\ \E l \in LockIds : /\ SameCell(locks[l], w, d, s)
                                   /\ ~locks[l].released /\ locks[l].expires_at > now)
            => /\ locks' = locks
               /\ resp'.proc = p
                  => \/ /\ resp'.res = "SameDayCutoffError"
                        /\ d = LocalDate(now)
                        /\ s < LocalTime(now) + SAME_DAY_BOOKING_CUTOFF_HOURS * 60
                     \/ /\ resp'.res = "SlotConflictError"
                        /\ \E b \in BookingIds : /\ SameCell(bookings[b], w, d, s)
                                                 /\ bookings[b].status = "CONFIRMED"]_vars

\* A session that holds the active lock of a cell has asked for the same cell
\* again and got SlotAlreadyLockedException.
C8_Witness ==
    /\ resp.op = "step7_review" /\ resp.res = "SlotAlreadyLockedException"
    /\ \E l \in LockIds : /\ ~locks[l].released /\ locks[l].expires_at > now
                          /\ locks[l].session_key = resp.proc

\* C8 (as stated): while a cell has an active lock, an acquisition for the
\* cell ends with no other error than SlotAlreadyLockedException.
C8_AlwaysAlreadyLocked ==
    [][\A p \in Procs, w \in Workers, d \in Dates, s \in StartTimes, svc \in Services :
          (/\ AcquireBegin(p, w, d, s, svc)
           /\ \E l \in LockIds : /\ SameCell(locks[l], w, d, s)
                                 /\ ~locks[l].released
                                 /\ locks[l].expires_at > now
           /\ resp'.proc = p)
          => resp'.res = "SlotAlreadyLockedException"]_vars

\* C9 (as amended): acquire_slot_lock fails with SlotConflictError whenever a
\* CONFIRMED booking is at the cell and the start is not inside the same-day
\* cutoff, also when the cell has an active lock; and whenever the
\* acquisition fails, no SlotLock row is created or changed.
C9_ConfirmedBlocks ==
    [][/\ \A p \in Procs, w \in Workers, d \in Dates, s \in StartTimes,
            svc \in Services :
            (/\ AcquireBegin(p, w, d, s, svc)
             /\ \E b \in BookingIds : /\ SameCell(bookings[b], w, d, s)
                                      /\ bookings[b].status = "CONFIRMED"
             /\ ~(/\ d = LocalDate(now)
                  /\ s < LocalTime(now) + SAME_DAY_BOOKING_CUTOFF_HOURS * 60))
            => resp' = [proc |-> p, op |-> "step7_review",
                        res |-> "SlotConflictError"]
       /\ (/\ resp'.op = "step7_review"
           /\ resp'.res \in {"SameDayCutoffError", "SlotConflictError",
                             "SlotAlreadyLockedException", "IntegrityError"})
          => locks' = locks]_vars

\* An acquisition has just failed with SlotConflictError while every cell
\* with a CONFIRMED booking also has an active lock.
C9_Witness ==
    /\ resp.op = "step7_review" /\ resp.res = "SlotConflictError"
    /\ \A b \in BookingIds :
          bookings[b].status = "CONFIRMED"
          => \E l \in LockIds : /\ SameCell(locks[l], bookings[b].worker,
                                            bookings[b].booking_date,
                                            bookings[b].start_time)
                                /\ ~locks[l].released /\ locks[l].expires_at > now

\* C9 (as stated): acquire_slot_lock fails with SlotConflictError whenever a
\* CONFIRMED booking is at the cell.
C9_AlwaysConflict ==
    [][\A p \in Procs, w \in Workers, d \in Dates, s \in StartTimes, svc \in Services :
          (/\ AcquireBegin(p, w, d, s, svc)
           /\ \E b \in BookingIds : /\ SameCell(bookings[b], w, d, s)
                                    /\ bookings[b].status = "CONFIRMED")
          => resp' = [proc |-> p, op |-> "step7_review",
                      res |-> "SlotConflictError"]]_vars

\* C10: a lock that is past its expiry and not yet released does not block:
\* an acquisition whose insert finds no CONFIRMED booking at the cell, the
\* start outside the cutoff and every lock of the cell released or expired,
\* creates its lock.
C10_ExpiredLockDoesNotBlock ==
    [][\A p \in Procs :
          LET r == req[p] IN
          (/\ AcquireInsert(p)
           /\ ~(r.booking_date = LocalDate(now)
                /\ r.start_time < LocalTime(now) + SAME_DAY_BOOKING_CUTOFF_HOURS * 60)
           /\ ~\E b \in BookingIds : /\ SameCell(bookings[b], r.worker, r.booking_date,
                                                 r.start_time)
                                     /\ bookings[b].status = "CONFIRMED"
           /\ \A l \in LockIds :
                 SameCell(locks[l], r.worker, r.booking_date, r.start_time)
                 => (locks[l].released \/ locks[l].expires_at < now))
          => /\ Len(locks') = Len(locks) + 1
             /\ req'[p].stage = "booking"]_vars

---------------------------------------------------------------------------
(* Properties: slot generation *)

\* C11: get_available_slots terminates and returns a finite list for every
\* window with opening before closing and every service with
\* duration + buffer of at least one minute, also for windows that close so
\* late that start + duration + buffer wraps past midnight.
C11_SlotsTerminate ==
    (/\ resp.op = "get_available_slots"
     /\ opening_time(branch(resp.worker)) < closing_time(branch(resp.worker))
     /\ duration_minutes(resp.service) + buffer_minutes(resp.service) >= 1)
    => resp.res = "slots"

C13_NoOccupiedSlotOffered ==
    (resp.op = "get_available_slots" /\ resp.res = "slots")
    => LET total == duration_minutes(resp.service) + buffer_minutes(resp.service)
           free(slot, r) ==
               LET r_end == IF r.end_time <= r.start_time
                            THEN r.end_time + MINUTES_PER_DAY ELSE r.end_time
               IN  ~(slot.start < r_end /\ slot.start + total > r.start_time)
       IN  \A i \in 1..Len(resp.slots) :
              /\ \A b \in BookingIds :
                    (/\ bookings[b].worker = resp.worker
                     /\ bookings[b].booking_date = resp.booking_date
                     /\ bookings[b].status = "CONFIRMED")
                    => free(resp.slots[i], bookings[b])
              /\ \A l \in LockIds :
                    (/\ locks[l].worker = resp.worker
                     /\ locks[l].booking_date = resp.booking_date
                     /\ ~locks[l].released /\ locks[l].expires_at > now)
                    => free(resp.slots[i], locks[l])

\* C14: for a future date with window [open, close) and no occupied windows
\* the result is, in increasing order, exactly the starts
\* open + k * (duration + buffer) with open + (k + 1) * (duration + buffer)
\* <= close, each with visible end start + duration.
C14_FullGrid ==
    (/\ resp.op = "get_available_slots"
     /\ resp.booking_date > LocalDate(now)
     /\ ~\E b \in BookingIds : /\ bookings[b].worker = resp.worker
                               /\ bookings[b].booking_date = resp.booking_date
                               /\ bookings[b].status = "CONFIRMED"
     /\ ~\E l \in LockIds : /\ locks[l].worker = resp.worker
                            /\ locks[l].booking_date = resp.booking_date
                            /\ ~locks[l].released /\ locks[l].expires_at > now)
    => LET open == opening_time(branch(resp.worker))
           close == closing_time(branch(resp.worker))
           total == duration_minutes(resp.service) + buffer_minutes(resp.service)
       IN  /\ resp.res = "slots"
           /\ resp.slots = [k \in 1..((close - open) \div total) |->
                               [start |-> open + (k - 1) * total,
                                end |-> open + (k - 1) * total
                                        + duration_minutes(resp.service)]]

\* C15: an occupied window removes only the grid slots whose block it
\* overlaps under the half-open test: a grid start outside the same-day
\* cutoff is returned exactly if no CONFIRMED booking and no active lock of
\* the worker on the date has start < block end and end > block start; a slot
\* that only touches a window is returned.
C15_OnlyOverlappedRemoved ==
    (resp.op = "get_available_slots" /\ resp.res = "slots")
    => LET open == opening_time(branch(resp.worker))
           close == closing_time(branch(resp.worker))
           total == duration_minutes(resp.service) + buffer_minutes(resp.service)
           windows ==
               {<<bookings[b].start_time, bookings[b].end_time>> :
                   b \in {c \in BookingIds : /\ bookings[c].worker = resp.worker
                                             /\ bookings[c].booking_date = resp.booking_date
                                             /\ bookings[c].status = "CONFIRMED"}}
               \cup
               {<<locks[l].start_time, locks[l].end_time>> :
                   l \in {k \in LockIds : /\ locks[k].worker = resp.worker
                                          /\ locks[k].booking_date = resp.booking_date
                                          /\ ~locks[k].released
                                          /\ locks[k].expires_at > now}}
           returned == {resp.slots[i].start : i \in 1..Len(resp.slots)}
       IN  \A k \in 0..((close - open) \div total - 1) :
              LET c == open + k * total IN
              ~(/\ resp.booking_date = LocalDate(now)
                /\ c < LocalTime(now) + SAME_DAY_BOOKING_CUTOFF_HOURS * 60)
              => (c \in returned
                  <=> ~\E win \in windows : c < win[2] /\ c + total > win[1])

\* With one CONFIRMED booking 11:00-11:30 of the worker on the date, the
\* slots of the 30 minute service without buffer miss 11:00 and have 10:30
\* and 11:30.
C15_Witness ==
    /\ resp.op = "get_available_slots" /\ resp.res = "slots"
    /\ duration_minutes(resp.service) = 30 /\ buffer_minutes(resp.service) = 0
    /\ \E b \in BookingIds : /\ bookings[b].worker = resp.worker
                             /\ bookings[b].booking_date = resp.booking_date
                             /\ bookings[b].status = "CONFIRMED"
                             /\ bookings[b].start_time = 11 * 60
                             /\ bookings[b].end_time = 11 * 60 + 30
    /\ LET returned == {resp.slots[i].start : i \in 1..Len(resp.slots)} IN
       /\ 11 * 60 \notin returned
       /\ 10 * 60 + 30 \in returned
       /\ 11 * 60 + 30 \in returned

---------------------------------------------------------------------------
(* Properties: the booking state machine *)

\* C16: the complete operation on a booking whose status is not CONFIRMED is
\* rejected, the status stays and no log row is added; only a CONFIRMED
\* booking becomes COMPLETED.
C16_CompleteOnlyConfirmed ==
    [][/\ \A p \in Procs, b \in BookingIds :
            (TransitionBegin(p, "booking_complete", b)
             /\ bookings[b].status # "CONFIRMED")
            => resp' = [proc |-> p, op |-> "booking_complete", res |-> "rejected"]
       /\ \A p \in Procs :
            (/\ req[p].op = "booking_complete"
             /\ TransitionLog(p) \/ TransitionSave(p, "ok")
             /\ bookings[req[p].booking].status # "CONFIRMED")
            => (bookings' = bookings /\ logs' = logs)
       /\ \A b \in BookingIds :
            (bookings[b].status # "COMPLETED" /\ bookings'[b].status = "COMPLETED")
            => bookings[b].status = "CONFIRMED"]_vars

\* C17: the cancel operation on a booking whose status is COMPLETED or EXPIRED
\* fails, the status remains what it was and no log row is added.
C17_CancelRejectedWhenFinal ==
    [][/\ \A p \in Procs, b \in BookingIds :
            (TransitionBegin(p, "booking_cancel", b)
             /\ bookings[b].status \in {"COMPLETED", "EXPIRED"})
            => resp' = [proc |-> p, op |-> "booking_cancel", res |-> "rejected"]
       /\ \A p \in Procs :
            (/\ req[p].op = "booking_cancel"
             /\ TransitionLog(p) \/ TransitionSave(p, "ok")
             /\ bookings[req[p].booking].status \in {"COMPLETED", "EXPIRED"})
            => (bookings' = bookings /\ logs' = logs)]_vars

\* C18: a booking's status changes to EXPIRED only from PENDING_PAYMENT, also
\* when a cleanup run interleaves with the confirmation of the booking: a
\* booking that is CONFIRMED is never overwritten to EXPIRED.
C18_ConfirmedNeverExpired ==
    [][\A b \in BookingIds :
          bookings[b].status = "CONFIRMED" => bookings'[b].status # "EXPIRED"]_vars

\* C19: a booking made by create_pending_booking and then confirmed has
\* status CONFIRMED, payment_status PAID and exactly two log rows, one for
\* its creation and one for the confirmation.
C19_TwoLogRowsAfterConfirm ==
    [][\A p \in Procs :
          (/\ ConfirmUnderRowLock(p)
           /\ bookings[req[p].booking].status = "PENDING_PAYMENT"
           /\ resp'.res = "confirmed")
          => /\ bookings'[req[p].booking].status = "CONFIRMED"
             /\ bookings'[req[p].booking].payment_status = "PAID"
             /\ Cardinality({i \in 1..Len(logs') :
                                logs'[i].booking = req[p].booking}) = 2]_vars

\* C20: create_manual_booking fails with SlotConflictError and creates
\* nothing if a CONFIRMED booking is at the cell; otherwise it creates one
\* booking, CONFIRMED, WAIVED, amount 0, manual, and writes one log row from
\* PENDING_PAYMENT to CONFIRMED.
C20_ManualBookingAndLog ==
    [][/\ \A p \in Procs, w \in Workers, d \in Dates, s \in StartTimes,
            svc \in Services :
            (/\ ManualBegin(p, "create_manual_booking", w, d, s, svc)
             /\ \E b \in BookingIds : /\ SameCell(bookings[b], w, d, s)
                                      /\ bookings[b].status = "CONFIRMED")
            => /\ resp' = [proc |-> p, op |-> "create_manual_booking",
                           res |-> "SlotConflictError"]
               /\ bookings' = bookings /\ logs' = logs
       /\ \A p \in Procs :
            (req[p].op = "create_manual_booking" /\ ManualInsert(p))
            => /\ Len(bookings') = Len(bookings) + 1
               /\ bookings'[Len(bookings')].status = "CONFIRMED"
               /\ bookings'[Len(bookings')].payment_status = "WAIVED"
               /\ bookings'[Len(bookings')].amount_paid = 0
               /\ bookings'[Len(bookings')].is_manual
       /\ \A p \in Procs :
            (req[p].op = "create_manual_booking" /\ ManualLog(p))
            => /\ Len(logs') = Len(logs) + 1
               /\ logs'[Len(logs')].booking = req[p].booking
               /\ logs'[Len(logs')].from_status = "PENDING_PAYMENT"
               /\ logs'[Len(logs')].to_status = "CONFIRMED"]_vars

---------------------------------------------------------------------------
(* Properties: receipts, availability and worker selection *)

\* C21: a booking's amount_paid is set once, at creation, and no later
\* operation (confirm, complete, cancel, expire) changes it.
C21_AmountPaidImmutable ==
    [][\A b \in BookingIds : bookings'[b].amount_paid = bookings[b].amount_paid]_vars

\* C22: get_availability_window(branch, worker, date) is (opening_time,
\* closing_time) of the branch exactly if the weekday of the date is a working
\* day of the branch, the worker is active, the worker has no leave on the
\* date and opening_time is strictly before closing_time; otherwise it is
\* None. No WorkerSchedule row has any influence.
C22_WindowIsBranchHours ==
    resp.op = "get_availability_window"
    => LET br == resp.branch
           available ==
               /\ (resp.booking_date % 7) \in get_working_days(br)
               /\ is_active(resp.worker)
               /\ ~OnLeave(resp.worker, resp.booking_date)
               /\ opening_time(br) < closing_time(br)
       IN  /\ available => resp.window = <<opening_time(br), closing_time(br)>>
           /\ ~available => (resp.window = <<>> /\ resp.res = "None")

\* The window of a worker whose own schedule row for the weekday is
\* 12:00-15:00 was asked for and is the branch's 10:00-19:00.
C22_Witness ==
    /\ resp.op = "get_availability_window"
    /\ WorkerSchedule(resp.worker, resp.booking_date % 7) = <<12 * 60, 15 * 60>>
    /\ resp.window = <<10 * 60, 19 * 60>>

\* C23: get_available_workers_for_slot(branch, service, date, start) returns
\* exactly the active workers of the branch that have an availability window
\* containing [start, start + duration + buffer) and no occupied window (of a
\* CONFIRMED booking or an active lock) overlapping that block; no inactive
\* worker, worker on leave, worker of another branch or occupied worker is
\* returned.
C23_ExactlyTheFreeWorkers ==
    resp.op = "get_available_workers_for_slot"
    => LET br == resp.branch
           d == resp.booking_date
           s == resp.start_time
           total == duration_minutes(resp.service) + buffer_minutes(resp.service)
           occupied(w) ==
               \/ \E b \in BookingIds :
                     /\ bookings[b].worker = w /\ bookings[b].booking_date = d
                     /\ bookings[b].status = "CONFIRMED"
                     /\ s < bookings[b].end_time /\ s + total > bookings[b].start_time
               \/ \E l \in LockIds :
                     /\ locks[l].worker = w /\ locks[l].booking_date = d
                     /\ ~locks[l].released /\ locks[l].expires_at > now
                     /\ s < locks[l].end_time /\ s + total > locks[l].start_time
           free(w) ==
               /\ branch(w) = br
               /\ is_active(w)
               /\ ~OnLeave(w, d)
               /\ (d % 7) \in get_working_days(br)
               /\ opening_time(br) <= s /\ s + total <= closing_time(br)
               /\ ~occupied(w)
       IN  {resp.workers[i] : i \in 1..Len(resp.workers)} = {w \in WinWorkers : free(w)}

\* C24: pick_least_booked_worker fails with NoWorkersAvailableError on an
\* empty candidate list; otherwise it returns a candidate with the fewest
\* CONFIRMED bookings on the date and, among those, the one with the lowest
\* id. The result is determined by the set of candidates and the bookings,
\* whatever the order of the list.
C24_LeastBookedLowestId ==
    resp.op = "pick_least_booked_worker"
    => LET ws == {resp.workers[i] : i \in 1..Len(resp.workers)}
           n(w) == Cardinality({b \in BookingIds :
                                   /\ bookings[b].worker = w
                                   /\ bookings[b].booking_date = resp.booking_date
                                   /\ bookings[b].status = "CONFIRMED"})
       IN  IF ws = {}
           THEN resp.res = "NoWorkersAvailableError"
           ELSE /\ resp.res = "worker"
                /\ resp.worker \in ws
                /\ \A w \in ws : n(resp.worker) <= n(w)
                /\ \A w \in ws : n(w) = n(resp.worker) => resp.worker <= w

\* Worker 1 has two CONFIRMED bookings on the date and worker 2 one; of the
\* list (1, 2) worker 2 was picked.
C24_Witness ==
    /\ resp.op = "pick_least_booked_worker"
    /\ resp.workers = <<1, 2>>
    /\ resp.worker = 2
    /\ Cardinality({b \in BookingIds : /\ bookings[b].worker = 1
                                         /\ bookings[b].booking_date = resp.booking_date
                                         /\ bookings[b].status = "CONFIRMED"}) = 2
    /\ Cardinality({b \in BookingIds : /\ bookings[b].worker = 2
                                         /\ bookings[b].booking_date = resp.booking_date
                                         /\ bookings[b].status = "CONFIRMED"}) = 1

---------------------------------------------------------------------------
(* Properties: the life of a lock *)

C26_LockLivesForTtl ==
    /\ [](\A w \in Workers, d \in Dates :
            \A occ \in _get_occupied_windows(w, d, now) :
               \/ \E b \in BookingIds :
                     /\ bookings[b].worker = w /\ bookings[b].booking_date = d
                     /\ bookings[b].status = "CONFIRMED"
                     /\ occ = <<bookings[b].start_time, bookings[b].end_time>>
               \/ \E l \in LockIds :
                     /\ locks[l].worker = w /\ locks[l].booking_date = d
                     /\ occ = <<locks[l].start_time, locks[l].end_time>>
                     /\ ~(now >= locks[l].expires_at))
    /\ [][/\ \A l \in LockIds : locks'[l].expires_at <= locks[l].expires_at
          /\ \A p \in Procs :
               (AcquireInsert(p) /\ Len(locks') = Len(locks) + 1)
               => /\ ~locks'[Len(locks')].released
                  /\ locks'[Len(locks')].expires_at = req[p].t + SLOT_LOCK_TTL_MINUTES
          /\ \A p \in Procs :
               (/\ AcquireCheckLock(p) \/ AcquireInsert(p)
                /\ \A l \in LockIds :
                      SameCell(locks[l], req[p].worker, req[p].booking_date,
                               req[p].start_time)
                      => now >= locks[l].expires_at)
               => req'[p].stage \in {"insert", "booking"}]_vars

\* C27: in step7_review, when the lock has been acquired and the request then
\* fails before the PENDING_PAYMENT booking is created, in guest resolution
\* or in booking creation, the lock is released before the request ends: no
\* active lock is left without a booking or a request that still works on it.
C27_FailedRequestReleasesLock ==
    /\ [](\A l \in LockIds :
            ActiveLock(l, now)
            => \/ \E b \in BookingIds : bookings[b].slot_lock = l
               \/ \E p \in Procs : req[p].op = "step7_review" /\ req[p].lock = l)
    /\ [][\A p \in Procs, outcome \in {"guest_error", "create_error"} :
             Step7CreateBooking(p, outcome) => locks'[req[p].lock].released]_vars

---------------------------------------------------------------------------
(* Properties: failures *)

\* C28: razorpay_webhook answers every POST that passes the signature
\* verification with HTTP 200 and lets no exception reach the caller,
\* whatever fails while the event is processed.
C28_WebhookAlwaysAcknowledges ==
    resp.op = "razorpay_webhook" => razorpay_webhook_status(resp.res) = 200

\* C29: when the notification of a confirmation or of a cancellation fails,
\* the booking's new status, the payment record and the audit row are what
\* they are when it succeeds: the transition is neither aborted nor undone.
C29_NotificationFailureKeepsTransition ==
    [][\A p \in Procs :
          /\ (ConfirmUnderRowLock(p) /\ resp'.res = "notification_failed")
             => /\ bookings' = [bookings EXCEPT
                                   ![req[p].booking].status = "CONFIRMED",
                                   ![req[p].booking].payment_status = "PAID",
                                   ![req[p].booking].amount_paid =
                                       payments[req[p].booking].amount]
                /\ payments' = [payments EXCEPT
                                   ![req[p].booking].status = "CAPTURED",
                                   ![req[p].booking].razorpay_payment_id =
                                       RazorpayPaymentId(req[p].booking)]
                /\ logs' = Append(logs, [booking |-> req[p].booking,
                                          from_status |-> bookings[req[p].booking].status,
                                          to_status |-> "CONFIRMED",
                                          changed_by |-> "webhook"])
          /\ (TransitionSave(p, "ok") /\ resp'.res = "notification_failed")
             => /\ bookings' = [bookings EXCEPT ![req[p].booking].status = "CANCELLED"]
                /\ payments' = payments
                /\ logs' = logs
                /\ \E i \in 1..Len(logs) :
                      /\ logs[i].booking = req[p].booking
                      /\ logs[i].to_status = "CANCELLED"]_vars

\* A confirmation whose e-mail failed has just committed: the booking is
\* CONFIRMED and PAID and its payment is CAPTURED.
C29_Witness ==
    /\ resp.op = "razorpay_webhook" /\ resp.res = "notification_failed"
    /\ \E b \in BookingIds : /\ bookings[b].status = "CONFIRMED"
                             /\ bookings[b].payment_status = "PAID"
                             /\ payments[b].status = "CAPTURED"

---------------------------------------------------------------------------
(* Properties: the cleanup job *)

\* C30: whenever a booking moves to EXPIRED (only the cleanup job does that),
\* its originating lock is absent, released or past its expires_at; a booking
\* whose lock is still active is never expired.
C30_CleanupSparesActiveLocks ==
    [][\A b \in BookingIds :
          (bookings[b].status # "EXPIRED" /\ bookings'[b].status = "EXPIRED")
          => LET l == bookings[b].slot_lock IN
             l = 0 \/ locks[l].released \/ locks[l].expires_at < now]_vars

\* The job has expired a booking whose lock ran out, while another
\* PENDING_PAYMENT booking with an active lock is left alone.
C30_Witness ==
    \E b1, b2 \in BookingIds :
        /\ bookings[b1].status = "EXPIRED"
        /\ bookings[b1].slot_lock # 0
        /\ \E i \in DOMAIN logs : /\ logs[i].booking = b1
                                   /\ logs[i].changed_by = "system_cron"
        /\ bookings[b2].status = "PENDING_PAYMENT"
        /\ LET l == bookings[b2].slot_lock IN
           l # 0 /\ ~locks[l].released /\ locks[l].expires_at > now

\* C31: with the cleanup job run periodically, every PENDING_PAYMENT booking
\* eventually is EXPIRED unless it is confirmed or cancelled, and every lock
\* eventually has released = true.
C31_CleanupEventuallySweeps ==
    /\ \A b \in 1..MaxBookings :
          (b \in BookingIds /\ bookings[b].status = "PENDING_PAYMENT")
          ~> (b \in BookingIds
              /\ bookings[b].status \in {"EXPIRED", "CONFIRMED", "CANCELLED"})
    /\ \A l \in 1..MaxLocks :
          (l \in LockIds) ~> (l \in LockIds /\ locks[l].released)

\* The job has run to its end and left every booking EXPIRED and every lock
\* released, a lock among them that no guest released.
C31_Witness ==
    /\ resp.op = "cleanup"
    /\ bookings # <<>>
    /\ \A b \in BookingIds : bookings[b].status = "EXPIRED"
    /\ \A l \in LockIds : locks[l].released
    /\ \E p \in Procs : slot_lock_id[p] # 0

---------------------------------------------------------------------------
(* Properties: the cells a lock may be taken for *)

\* C32: acquire_slot_lock fails with InvalidSlotError and creates no lock
\* when the start time is outside the worker's availability window for the
\* date, and the block [start_time, end_time) of every lock it creates is
\* inside the window get_availability_window returns.
C32_LockInsideWindow ==
    [][/\ \A p \in Procs, w \in Workers, d \in CellDates, s \in CellStarts,
            svc \in GenServices :
            LET window == get_availability_window(branch(w), w, d) IN
            (/\ AcquireBegin(p, w, d, s, svc)
             /\ (window = <<>> \/ s < window[1] \/ s >= window[2]))
            => /\ resp' = [proc |-> p, op |-> "step7_review", res |-> "InvalidSlotError"]
               /\ locks' = locks
       /\ \A p \in Procs :
            (AcquireInsert(p) /\ Len(locks') = Len(locks) + 1)
            => LET k == locks'[Len(locks')]
                   window == get_availability_window(branch(k.worker), k.worker,
                                                     k.booking_date)
               IN  /\ window # <<>>
                   /\ window[1] <= k.start_time
                   /\ k.start_time <= k.end_time
                   /\ k.end_time <= window[2]]_vars

\* C33: no worker has two CONFIRMED bookings on a date whose [start_time,
\* end_time) windows overlap, and no worker has two active locks on a date
\* whose windows overlap, whatever the services and the start times.
C33_NoOverlapPerWorker ==
    /\ \A b1, b2 \in BookingIds :
          (/\ b1 # b2
           /\ bookings[b1].status = "CONFIRMED" /\ bookings[b2].status = "CONFIRMED"
           /\ bookings[b1].worker = bookings[b2].worker
           /\ bookings[b1].booking_date = bookings[b2].booking_date)
          => ~(/\ bookings[b1].start_time < bookings[b2].end_time
               /\ bookings[b1].end_time > bookings[b2].start_time)
    /\ \A l1, l2 \in LockIds :
          (/\ l1 # l2
           /\ ~locks[l1].released /\ locks[l1].expires_at > now
           /\ ~locks[l2].released /\ locks[l2].expires_at > now
           /\ locks[l1].worker = locks[l2].worker
           /\ locks[l1].booking_date = locks[l2].booking_date)
          => ~(/\ locks[l1].start_time < locks[l2].end_time
               /\ locks[l1].end_time > locks[l2].start_time)

\* C39: no SlotLock and no PENDING_PAYMENT booking is created for a booking
\* date before the current local date: an acquisition for a date that
\* get_available_slots answers with the empty list because it is in the past
\* is rejected and leaves the locks as they are.
C39_NoLockForPastDate ==
    [][/\ Len(locks') > Len(locks)
          => locks'[Len(locks')].booking_date >= LocalDate(now)
       /\ (/\ Len(bookings') > Len(bookings)
           /\ bookings'[Len(bookings')].status = "PENDING_PAYMENT")
          => bookings'[Len(bookings')].booking_date >= LocalDate(now)
       /\ \A p \in Procs, w \in Workers, d \in CellDates, s \in CellStarts,
            svc \in GenServices :
            (/\ AcquireBegin(p, w, d, s, svc)
             /\ d < LocalDate(now)
             /\ get_available_slots(w, svc, d, now) = <<>>)
            => /\ resp'.proc = p
               /\ locks' = locks]_vars

---------------------------------------------------------------------------
(* Properties: confirmation *)

\* C34: a booking of the guest flow becomes CONFIRMED only while its own
\* SlotLock is unreleased and unexpired; a PENDING_PAYMENT booking whose lock
\* was released by cancel_lock or has expired is not confirmed after another
\* guest has acquired a lock on the cell.
C34_ConfirmOnlyUnderOwnLock ==
    [][\A b \in BookingIds :
          (/\ bookings[b].status # "CONFIRMED"
           /\ bookings'[b].status = "CONFIRMED"
           /\ bookings[b].slot_lock # 0)
          => /\ ~locks[bookings[b].slot_lock].released
             /\ locks[bookings[b].slot_lock].expires_at > now]_vars

\* C35: a payment.captured event counts as already processed only if the
\* confirmation it asked for has committed: a redelivery of an event that is
\* recorded on a payment which is not CAPTURED, with no delivery of the event
\* still at work and the booking PENDING_PAYMENT and free to be confirmed,
\* runs the confirmation again.
C35_RedeliveryConfirms ==
    [][\A p \in Procs, e \in EventIds, b \in BookingIds :
          (/\ WebhookBegin(p, e, b)
           /\ e # 0
           /\ payments[b].webhook_event_id = e
           /\ payments[b].status # "CAPTURED"
           /\ ~\E q \in Procs : req[q].op = "razorpay_webhook" /\ req[q].event_id = e
           /\ bookings[b].status = "PENDING_PAYMENT"
           /\ uq_confirmed_booking_slot([bookings EXCEPT ![b].status = "CONFIRMED"]))
          => req'[p].op = "razorpay_webhook"]_vars

\* C36: for every booking, its BookingStatusLog rows in the order of their
\* time form a chain: the from_status of the first row is PENDING_PAYMENT and
\* the from_status of every later row is the to_status of the row before it,
\* also when cancel, expire and confirmation of the booking interleave.
C36_LogRowsFormChain ==
    \A b \in BookingIds :
        \A i \in 1..Len(logs) :
            logs[i].booking = b
            => IF \E j \in 1..(i - 1) : logs[j].booking = b
               THEN \E j \in 1..(i - 1) :
                       /\ logs[j].booking = b
                       /\ \A k \in (j + 1)..(i - 1) : logs[k].booking # b
                       /\ logs[i].from_status = logs[j].to_status
               ELSE logs[i].from_status = "PENDING_PAYMENT"

---------------------------------------------------------------------------
(* Properties: freed cells and the two views of availability *)

\* C37: once a booking that was CONFIRMED is CANCELLED and its cell has no
\* active lock (and no other CONFIRMED booking), the cell is free again: if
\* the start is outside the same-day cutoff, acquire_slot_lock for the cell
\* succeeds and get_available_slots returns the slot.
C37_CancelFreesCell ==
    \A b \in BookingIds :
        LET w == bookings[b].worker
            d == bookings[b].booking_date
            s == bookings[b].start_time
            svc == bookings[b].service
        IN  (/\ bookings[b].status = "CANCELLED"
             /\ \E i \in 1..Len(logs) : /\ logs[i].booking = b
                                         /\ logs[i].from_status = "CONFIRMED"
                                         /\ logs[i].to_status = "CANCELLED"
             /\ ActiveLocksAt(w, d, s, now) = {}
             /\ ConfirmedAt(w, d, s) = {}
             /\ ~_is_same_day_cutoff(d, s, now))
            => /\ acquire_slot_lock(w, d, s, svc, now) = "lock"
               /\ \E i \in 1..Len(get_available_slots(w, svc, d, now)) :
                     get_available_slots(w, svc, d, now)[i].start = s

\* C38: the slot generator and the candidate selector agree: if
\* get_available_slots(worker, service, date) returns a slot with start s,
\* the worker is among get_available_workers_for_slot(worker.branch, service,
\* date, s) in the same state.
C38_GeneratorAndSelectorAgree ==
    (resp.op = "get_available_slots" /\ resp.res = "slots")
    => \A i \in 1..Len(resp.slots) :
          LET workers == get_available_workers_for_slot(branch(resp.worker), resp.service,
                                                        resp.booking_date,
                                                        resp.slots[i].start, now)
          IN  \E j \in 1..Len(workers) : workers[j] = resp.worker

====
